---- MODULE Spec2Model ----
(***************************************************************************)
(* A model of qibo's symbolic circuit, src/src/qibo/base/circuit.py:       *)
(* BaseCircuit.add, _check_measured, _add_measurement, _circuit_addition,  *)
(* depth, size and to_qasm.  Circuits and gates are Python objects: a      *)
(* circuit refers to gates, and one gate object may be referred to by      *)
(* several circuits, so the gates live in a heap of their own.  The        *)
(* gradient of the InitialState operator,                                  *)
(* qibo_tf_custom_operators_grads.py, is modelled as a function of lists.  *)
(***************************************************************************)
EXTENDS Integers, Sequences, FiniteSets, TLC

(* Bound of the model: the number of operations of a run. *)
MaxSteps == 3
(* Bound of the gradient vectors: their greatest length. *)
MaxLen == 3

(* Python's None: for the integer-valued fields, and for the string-valued ones. *)
None == 0
NoName == "None"

(* The classes a circuit is constructed from: BaseCircuit itself, and a concrete
   backend circuit ("Circuit") whose constructor also sets _final_state = None. *)
Classes == {"BaseCircuit", "Circuit"}
Sizes == {4, 5}
Slots == {"A", "B", "R"}

(* ---- Gate objects (qibo.base.gates, consumed through a small surface) ---- *)
Gate(name, controls, targets, register) ==
  [name |-> name, control_qubits |-> controls, target_qubits |-> targets,
   nqubits |-> None, register_name |-> register, qasm |-> name]
H(q) == Gate("h", <<>>, <<q>>, NoName)
CNOT(q0, q1) == Gate("cx", <<q0>>, <<q1>>, NoName)
M(qs, register) == Gate("measure", <<>>, qs, register)
(* Ordinary gates that are lowered to measurements: in the X basis, in the Y
   basis (two operands), and one lowered with the opcode "measure". *)
MX(q) == Gate("MX", <<>>, <<q>>, NoName)
MY(q0, q1) == Gate("MY", <<>>, <<q0, q1>>, NoName)
MZ(q) == [Gate("mz", <<>>, <<q>>, NoName) EXCEPT !.qasm = "measure"]

(* gate.qubits: the control qubits followed by the target qubits. *)
qubits(gate) == gate.control_qubits \o gate.target_qubits

(* gate.gate2qasm(): the opcode and the operand qubits. *)
gate2qasm(gate) == <<gate.qasm, qubits(gate)>>

(* The gate objects the runs draw from. *)
GatePool ==
  << H(0), CNOT(0, 1), M(<<0>>, NoName), M(<<1>>, "Register1"),
     M(<<2>>, "Register1"), M(<<0, 3>>, "a") >>
GateIds == DOMAIN GatePool

(* The gate objects of the runs that serialize circuits. *)
QasmPool ==
  << H(0), CNOT(0, 1), MX(0), MY(0, 1), MZ(1), M(<<2>>, NoName) >>

(* The entries of the upstream gradients. *)
GradValues == {-1, 0, 1, 2}

Range(s) == {s[i] : i \in DOMAIN s}

VARIABLES circuits, gates, last, steps, qasm, grad, returned
vars == <<circuits, gates, last, steps, qasm, grad, returned>>

(* ---- Python values stored in measurement_sets ---- *)
EmptyDict == [n \in {} |-> {}]
(* set(t): the elements of t, without order. *)
set(t) == [kind |-> "set", elems |-> Range(t), order |-> <<>>]
(* t itself, a tuple. *)
tuple(t) == [kind |-> "tuple", elems |-> Range(t), order |-> t]
(* d[k] = v on a dict: a new key is added, an existing key's value is replaced. *)
setitem(d, k, v) == [n \in DOMAIN d \cup {k} |-> IF n = k THEN v ELSE d[n]]
len(d) == Cardinality(DOMAIN d)
(* "Register{}".format(k) *)
RegisterName(k) == "Register" \o ToString(k)

(* Gate._add of a measurement gate: the new target qubits are appended. *)
gate_add(targets, new) ==
  targets \o SelectSeq(new, LAMBDA q : q \notin Range(targets))

(* ---- BaseCircuit.__init__ ---- *)
(* _final_state is not assigned by BaseCircuit.__init__; the concrete circuit
   class sets it to None. *)
__init__(cls, nqubits) ==
  [nqubits |-> nqubits,
   queue |-> <<>>,
   is_executed |-> FALSE,
   measurement_sets |-> EmptyDict,
   measurement_gate |-> None,
   final_state |-> IF cls = "BaseCircuit" THEN "unset" ELSE "None"]

size(c) == c.nqubits

(* Mutant of depth: the measurement gate is counted with the queue. *)
depth_with_measurement(c) ==
  Len(c.queue) + (IF c.measurement_gate = None THEN 0 ELSE 1)

depth(c) == Len(c.queue)

Outcome(circ, G, err) == [circ |-> circ, gates |-> G, err |-> err]

(* Mutant of _check_measured: only the gate's first qubit is looked at. *)
_check_measured_first(circ, G, gate_qubits) ==
  /\ gate_qubits # <<>>
  /\ circ.measurement_gate # None
  /\ gate_qubits[1] \in Range(G[circ.measurement_gate].target_qubits)

(* ---- BaseCircuit._check_measured: TRUE when it raises ---- *)
_check_measured(circ, G, gate_qubits) ==
  \E i \in DOMAIN gate_qubits :
     /\ circ.measurement_gate # None
     /\ gate_qubits[i] \in Range(G[circ.measurement_gate].target_qubits)

(* Mutant of _add_measurement: the register name is not checked against the
   names in use. *)
_add_measurement_unchecked(circ, G, g) ==
  LET given == G[g].register_name
      name == IF given = NoName THEN RegisterName(len(circ.measurement_sets))
              ELSE given
      G1 == [G EXCEPT ![g].register_name = name]
  IN IF circ.measurement_gate = None
     THEN Outcome([circ EXCEPT !.measurement_gate = g,
                               !.measurement_sets =
                                  setitem(@, name, set(G1[g].target_qubits))],
                  G1, "ok")
     ELSE LET mg == circ.measurement_gate
              G2 == [G1 EXCEPT ![mg].target_qubits =
                                  gate_add(@, G1[g].target_qubits)]
          IN Outcome([circ EXCEPT !.measurement_sets =
                                     setitem(@, name, tuple(G2[g].target_qubits))],
                     G2, "ok")

(* ---- BaseCircuit._add_measurement ---- *)
_add_measurement(circ, G, g) ==
  LET given == G[g].register_name
      name == IF given = NoName THEN RegisterName(len(circ.measurement_sets))
              ELSE given
      G1 == [G EXCEPT ![g].register_name = name]
  IN IF given # NoName /\ name \in DOMAIN circ.measurement_sets
     THEN Outcome(circ, G, "KeyError")
     ELSE IF circ.measurement_gate = None
     THEN Outcome([circ EXCEPT !.measurement_gate = g,
                               !.measurement_sets =
                                  setitem(@, name, set(G1[g].target_qubits))],
                  G1, "ok")
     ELSE LET mg == circ.measurement_gate
              G2 == [G1 EXCEPT ![mg].target_qubits =
                                  gate_add(@, G1[g].target_qubits)]
          IN Outcome([circ EXCEPT !.measurement_sets =
                                     setitem(@, name, tuple(G2[g].target_qubits))],
                     G2, "ok")

(* Mutant of add: the gate's declared qubit count is not compared with the
   circuit's. *)
add_any_nqubits(circ, G, g) ==
  IF circ.final_state = "unset" THEN Outcome(circ, G, "AttributeError")
  ELSE IF circ.final_state # "None" THEN Outcome(circ, G, "RuntimeError")
  ELSE LET G1 == IF G[g].nqubits = None
                 THEN [G EXCEPT ![g].nqubits = circ.nqubits] ELSE G
       IN IF _check_measured(circ, G1, qubits(G1[g]))
          THEN Outcome(circ, G1, "ValueError: measured")
          ELSE IF G1[g].name = "measure"
          THEN _add_measurement(circ, G1, g)
          ELSE Outcome([circ EXCEPT !.queue = Append(@, g)], G1, "ok")

(* Mutant of add: a measurement gate is registered and then falls through
   to the queue as well. *)
add_fallthrough(circ, G, g) ==
  IF circ.final_state = "unset" THEN Outcome(circ, G, "AttributeError")
  ELSE IF circ.final_state # "None" THEN Outcome(circ, G, "RuntimeError")
  ELSE IF G[g].nqubits # None /\ G[g].nqubits # circ.nqubits
  THEN Outcome(circ, G, "ValueError: nqubits")
  ELSE LET G1 == IF G[g].nqubits = None
                 THEN [G EXCEPT ![g].nqubits = circ.nqubits] ELSE G
       IN IF _check_measured(circ, G1, qubits(G1[g]))
          THEN Outcome(circ, G1, "ValueError: measured")
          ELSE IF G1[g].name = "measure"
          THEN LET r == _add_measurement(circ, G1, g)
               IN IF r.err # "ok" THEN r
                  ELSE Outcome([r.circ EXCEPT !.queue = Append(@, g)],
                               r.gates, "ok")
          ELSE Outcome([circ EXCEPT !.queue = Append(@, g)], G1, "ok")

(* ---- BaseCircuit.add ---- *)
add(circ, G, g) ==
  IF circ.final_state = "unset" THEN Outcome(circ, G, "AttributeError")
  ELSE IF circ.final_state # "None" THEN Outcome(circ, G, "RuntimeError")
  ELSE IF G[g].nqubits # None /\ G[g].nqubits # circ.nqubits
  THEN Outcome(circ, G, "ValueError: nqubits")
  ELSE LET G1 == IF G[g].nqubits = None
                 THEN [G EXCEPT ![g].nqubits = circ.nqubits] ELSE G
       IN IF _check_measured(circ, G1, qubits(G1[g]))
          THEN Outcome(circ, G1, "ValueError: measured")
          ELSE IF G1[g].name = "measure"
          THEN _add_measurement(circ, G1, g)
          ELSE Outcome([circ EXCEPT !.queue = Append(@, g)], G1, "ok")

(* ---- BaseCircuit._circuit_addition ---- *)
(* The two loops: every gate of the queue goes through add; the first error
   ends the call. *)
RECURSIVE replay(_, _, _)
replay(circ, G, queue) ==
  IF queue = <<>> THEN Outcome(circ, G, "ok")
  ELSE LET r == add(circ, G, Head(queue))
       IN IF r.err # "ok" THEN r ELSE replay(r.circ, r.gates, Tail(queue))

(* Mutant of _circuit_addition: the sizes of the circuits are not compared. *)
_circuit_addition_any_size(cls, c1, c2, G) ==
  LET r1 == replay(__init__(cls, c1.nqubits), G, c1.queue)
  IN IF r1.err # "ok" THEN r1 ELSE replay(r1.circ, r1.gates, c2.queue)

(* Mutant of _circuit_addition: the measurement gates of the operands are
   replayed after their queues. *)
_circuit_addition_measured(cls, c1, c2, G) ==
  LET all(c) == c.queue \o (IF c.measurement_gate = None THEN <<>>
                            ELSE <<c.measurement_gate>>)
  IN IF c1.nqubits # c2.nqubits
     THEN Outcome(c1, G, "ValueError: circuits")
     ELSE LET r1 == replay(__init__(cls, c1.nqubits), G, all(c1))
          IN IF r1.err # "ok" THEN r1 ELSE replay(r1.circ, r1.gates, all(c2))

(* Mutant of _circuit_addition: the second loop runs over c1.queue again. *)
_circuit_addition_twice(cls, c1, c2, G) ==
  IF c1.nqubits # c2.nqubits
  THEN Outcome(c1, G, "ValueError: circuits")
  ELSE LET r1 == replay(__init__(cls, c1.nqubits), G, c1.queue)
       IN IF r1.err # "ok" THEN r1 ELSE replay(r1.circ, r1.gates, c1.queue)

(* cls._circuit_addition(c1, c2) *)
_circuit_addition(cls, c1, c2, G) ==
  IF c1.nqubits # c2.nqubits
  THEN Outcome(c1, G, "ValueError: circuits")
  ELSE LET r1 == replay(__init__(cls, c1.nqubits), G, c1.queue)
       IN IF r1.err # "ok" THEN r1 ELSE replay(r1.circ, r1.gates, c2.queue)

(* BaseCircuit.__add__: the addition with cls = BaseCircuit. *)
__add__(c1, c2, G) == _circuit_addition("BaseCircuit", c1, c2, G)

(* ---- BaseCircuit.to_qasm ---- *)
(* str(n) of a natural number, one character per digit. *)
RECURSIVE str_chars(_)
str_chars(n) ==
  IF n < 10 THEN <<ToString(n)>>
  ELSE str_chars(n \div 10) \o <<ToString(n % 10)>>

(* The characters of f"measure q[{q}] -> c[0];\n": the list code is extended
   with a string (code += "..."), which appends its characters one by one. *)
measure_chars(q) ==
  <<"m", "e", "a", "s", "u", "r", "e", " ", "q", "[">> \o str_chars(q)
    \o <<"]", " ", "-", ">", " ", "c", "[", "0", "]", ";", "\n">>

(* Mutant of qasm_line: only the first operand is written. *)
qasm_line_first_operand(gate, ids) ==
  gate \o " q[" \o ToString(ids[1]) \o "]" \o ";"

(* The line of an ordinary gate: the opcode, the first operand and, if there
   is one, the second, closed by a semicolon. *)
qasm_line(gate, ids) ==
  LET data == gate \o " q[" \o ToString(ids[1]) \o "]"
  IN (IF Len(ids) > 1 THEN data \o ", q[" \o ToString(ids[2]) \o "]"
      ELSE data) \o ";"

(* The loop over the queue.  The branches of the opcodes MX and MY read the
   name idx, which is not defined: they raise NameError (MY after indexing
   its second operand); every branch indexes the first operand. *)
RECURSIVE qasm_loop(_, _, _, _)
qasm_loop(code, is_measure, G, queue) ==
  IF queue = <<>>
  THEN [err |-> "ok", code |-> code, is_measure |-> is_measure]
  ELSE LET gate == gate2qasm(G[Head(queue)])[1]
           ids == gate2qasm(G[Head(queue)])[2]
           raise(e) == [err |-> e, code |-> code, is_measure |-> is_measure]
       IN IF ids = <<>> THEN raise("IndexError")
          ELSE IF gate = "MX" THEN raise("NameError")
          ELSE IF gate = "MY"
          THEN IF Len(ids) < 2 THEN raise("IndexError")
               ELSE raise("NameError")
          ELSE IF gate = "measure"
          THEN qasm_loop(code \o measure_chars(ids[1]), TRUE, G, Tail(queue))
          ELSE qasm_loop(Append(code, qasm_line(gate, ids)), is_measure, G,
                         Tail(queue))

(* list.insert(i, x) and sep.join(list). *)
insert(l, i, x) ==
  IF i >= Len(l) THEN Append(l, x)
  ELSE SubSeq(l, 1, i) \o <<x>> \o SubSeq(l, i + 1, Len(l))

RECURSIVE join(_, _)
join(sep, l) ==
  IF l = <<>> THEN ""
  ELSE IF Len(l) = 1 THEN l[1]
  ELSE l[1] \o sep \o join(sep, Tail(l))

(* What to_qasm gives: the error raised or "ok", the list code as it is
   joined, and the text returned. *)
QasmResult(err, code) ==
  [err |-> err,
   code |-> IF err = "ok" THEN code ELSE <<>>,
   text |-> IF err = "ok" THEN join("\n", code) ELSE ""]
NoQasm == [err |-> "none", code |-> <<>>, text |-> ""]

to_qasm(circ, G) ==
  LET head == << "# Generated by QIBO",
                 "OPENQASM 2.0;",
                 "include \"qelib1.inc\";",
                 "qreg q[" \o ToString(circ.nqubits) \o "];" >>
      r == qasm_loop(head, FALSE, G, circ.queue)
  IN QasmResult(r.err,
                IF r.is_measure THEN insert(r.code, 4, "creg c[1];")
                ELSE r.code)

(* ---- _initial_state_grad (qibo_tf_custom_operators_grads.py) ---- *)
(* grad[1:] and tf.concat(values, axis=0) on vectors. *)
slice_from_1(v) == SubSeq(v, 2, Len(v))
RECURSIVE tf_concat(_)
tf_concat(values) ==
  IF values = <<>> THEN <<>> ELSE Head(values) \o tf_concat(Tail(values))

(* Mutant of _initial_state_grad: the zero is put in front of the gradient,
   whose last entry is cut. *)
_initial_state_grad_shifted(op, g) ==
  << tf_concat(<< <<0>>, SubSeq(g, 1, Len(g) - 1) >>) >>

(* The list of the gradients with respect to the inputs of the operator. *)
_initial_state_grad(op, g) ==
  LET to_initial_state == tf_concat(<< <<0>>, slice_from_1(g) >>)
  IN <<to_initial_state>>

(* ---- The state machine ---- *)
Last(op, c, c2, g, cls, err) ==
  [op |-> op, c |-> c, c2 |-> c2, g |-> g, cls |-> cls, err |-> err]

Init ==
  /\ \E cb \in Classes, nb \in Sizes :
        circuits = [s \in Slots |->
                      IF s = "A" THEN __init__("Circuit", 4)
                      ELSE IF s = "B" THEN __init__(cb, nb)
                      ELSE __init__("Circuit", 4)]
  /\ gates = GatePool
  /\ last = Last("init", "A", "A", None, "", "ok")
  /\ steps = 0
  /\ qasm = NoQasm
  /\ grad = <<>>
  /\ returned = <<>>

(* circuit.add(gate) *)
Add(s, g) ==
  LET r == add(circuits[s], gates, g)
  IN /\ steps < MaxSteps
     /\ circuits' = [circuits EXCEPT ![s] = r.circ]
     /\ gates' = r.gates
     /\ last' = Last("add", s, s, g, "", r.err)
     /\ steps' = steps + 1
     /\ UNCHANGED <<qasm, grad, returned>>

(* R = cls._circuit_addition(c1, c2); c1 + c2 is the case cls = BaseCircuit. *)
CircuitAddition(cls, s1, s2) ==
  LET r == _circuit_addition(cls, circuits[s1], circuits[s2], gates)
  IN /\ steps < MaxSteps
     /\ circuits' = IF r.err = "ok" THEN [circuits EXCEPT !["R"] = r.circ]
                    ELSE circuits
     /\ gates' = r.gates
     /\ last' = Last("add_circuits", s1, s2, None, cls, r.err)
     /\ steps' = steps + 1
     /\ UNCHANGED <<qasm, grad, returned>>

(* The backend's execution of a circuit: BaseCircuit.execute itself raises
   NotImplementedError; a concrete circuit marks itself executed and may keep
   the final state. *)
Execute(s, keeps) ==
  /\ steps < MaxSteps
  /\ circuits' =
       IF circuits[s].final_state = "unset" THEN circuits
       ELSE [circuits EXCEPT ![s].is_executed = TRUE,
                             ![s].final_state = IF keeps THEN "state" ELSE @]
  /\ last' = Last("execute", s, s, None, "",
                  IF circuits[s].final_state = "unset"
                  THEN "NotImplementedError" ELSE "ok")
  /\ UNCHANGED <<gates, qasm, grad, returned>>
  /\ steps' = steps + 1

Next ==
  \/ \E s \in Slots, g \in GateIds : Add(s, g)
  \/ \E cls \in Classes, s1 \in Slots, s2 \in Slots : CircuitAddition(cls, s1, s2)
  \/ \E s \in Slots, keeps \in BOOLEAN : Execute(s, keeps)

Spec == Init /\ [][Next]_vars

(* ---- Serialization runs: circuits are built and written as QASM ---- *)
InitQasm ==
  /\ \E nb \in Sizes :
        circuits = [s \in Slots |->
                      IF s = "B" THEN __init__("Circuit", nb)
                      ELSE __init__("Circuit", 4)]
  /\ gates = QasmPool
  /\ last = Last("init", "A", "A", None, "", "ok")
  /\ steps = 0
  /\ qasm = NoQasm
  /\ grad = <<>>
  /\ returned = <<>>

(* text = circuit.to_qasm() *)
ToQasm(s) ==
  /\ steps < MaxSteps
  /\ qasm' = to_qasm(circuits[s], gates)
  /\ last' = Last("to_qasm", s, s, None, "", qasm'.err)
  /\ steps' = steps + 1
  /\ UNCHANGED <<circuits, gates, grad, returned>>

NextQasm ==
  \/ \E s \in {"A", "B"}, g \in DOMAIN QasmPool : Add(s, g)
  \/ \E cls \in Classes : CircuitAddition(cls, "A", "B")
  \/ \E s \in Slots : ToQasm(s)

SpecQasm == InitQasm /\ [][NextQasm]_vars

(* ---- Gradient runs: the adapter is applied to an upstream gradient ---- *)
Vectors == UNION {[1..n -> GradValues] : n \in 0..MaxLen}

InitGrad ==
  /\ circuits = [s \in Slots |-> __init__("Circuit", 4)]
  /\ gates = GatePool
  /\ last = Last("init", "A", "A", None, "", "ok")
  /\ steps = 0
  /\ qasm = NoQasm
  /\ grad \in Vectors
  /\ returned = <<>>

(* The backend asks for the gradient of InitialState. *)
InitialStateGrad ==
  /\ returned' = _initial_state_grad("InitialState", grad)
  /\ last' = Last("grad", "A", "A", None, "", "ok")
  /\ UNCHANGED <<circuits, gates, steps, qasm, grad>>

NextGrad == InitialStateGrad

SpecGrad == InitGrad /\ [][NextGrad]_vars

(* ======================= Properties ======================= *)

(* The qubits measured in a circuit: the targets of its measurement gate. *)
Measured(circ, G) ==
  IF circ.measurement_gate = None THEN {}
  ELSE Range(G[circ.measurement_gate].target_qubits)

(* Gate g acts on a qubit that is measured in the circuit. *)
Touches(circ, G, g) == Range(qubits(G[g])) \cap Measured(circ, G) # {}

(* The step is a call of add. *)
IsAdd == last'.op = "add" /\ steps' = steps + 1

(* The declared qubit count of gate g differs from the circuit's. *)
Mismatch(circ, G, g) == G[g].nqubits # None /\ G[g].nqubits # circ.nqubits

(* The step leaves the circuit in slot s as it was: queue, measurement gate
   (and its targets) and registers. *)
CircuitKept(s) ==
  /\ circuits'[s] = circuits[s]
  /\ circuits[s].measurement_gate # None =>
       gates'[circuits[s].measurement_gate].target_qubits
         = gates[circuits[s].measurement_gate].target_qubits

(* C1, as stated: once a qubit is measured in a circuit, every add of a gate
   touching it is rejected with the measured-qubit-reuse error. *)
C1_Original ==
  [][(IsAdd /\ Touches(circuits[last'.c], gates, last'.g))
       => last'.err = "ValueError: measured"]_vars

(* C1, amended: once a qubit is measured in a circuit, every add of a gate
   touching it is rejected and leaves the queue and the measurement gate as
   they were; the error is the frozen-circuit error on a frozen circuit,
   else the qubit-count-mismatch error for a gate declaring another qubit
   count, else the measured-qubit-reuse error. *)
C1_MeasuredQubitFrozen ==
  [][(IsAdd /\ Touches(circuits[last'.c], gates, last'.g))
       => /\ last'.err =
               IF circuits[last'.c].final_state # "None" THEN "RuntimeError"
               ELSE IF Mismatch(circuits[last'.c], gates, last'.g)
                    THEN "ValueError: nqubits"
               ELSE "ValueError: measured"
          /\ CircuitKept(last'.c)]_vars

(* C1's case: on a circuit with a measured qubit, an ordinary gate touching
   that qubit has just been rejected, and so was, earlier, a measurement gate
   with a register name of its own: it was submitted (its qubit count is
   back-filled) and its name is in no circuit. *)
C1_Witness ==
  /\ last.op = "add" /\ last.err = "ValueError: measured"
  /\ Touches(circuits[last.c], gates, last.g)
  /\ gates[last.g].name # "measure"
  /\ \E m \in GateIds :
        /\ gates[m].name = "measure" /\ gates[m].register_name # NoName
        /\ gates[m].nqubits = circuits[last.c].nqubits
        /\ Touches(circuits[last.c], gates, m)
        /\ \A s \in Slots :
              gates[m].register_name \notin DOMAIN circuits[s].measurement_sets

(* C2: once is_executed is true, every add is rejected with the frozen-circuit
   error and leaves queue, measurement_gate and measurement_sets as they were. *)
C2_ExecutedRejectsAdd ==
  [][(IsAdd /\ circuits[last'.c].is_executed)
       => /\ last'.err = "RuntimeError"
          /\ circuits'[last'.c] = circuits[last'.c]]_vars

(* C3: register names are unique over the lifetime of a circuit: a
   measurement gate that is added holds a name that is not yet a key of
   measurement_sets, and no existing entry of measurement_sets is replaced. *)
C3_RegisterNamesUnique ==
  [][(IsAdd /\ last'.err = "ok" /\ gates[last'.g].name = "measure")
       => LET before == circuits[last'.c].measurement_sets
              after == circuits'[last'.c].measurement_sets
          IN /\ gates'[last'.g].register_name \notin DOMAIN before
             /\ \A n \in DOMAIN before : n \in DOMAIN after /\ after[n] = before[n]]_vars

(* add reaches the register-name validation: the circuit is not executed
   (_final_state is None), the gate is a measurement gate whose qubit count is
   unset or the circuit's, and none of its qubits is measured yet. *)
ReachesRegistration(circ, G, g) ==
  /\ circ.final_state = "None"
  /\ G[g].name = "measure"
  /\ ~Mismatch(circ, G, g)
  /\ ~Touches(circ, G, g)

(* C4: adding a measurement gate with an explicit register name, on not yet
   measured qubits of an unexecuted circuit: when the name is already a key
   of measurement_sets (an earlier gate carries it) the add is rejected with
   the duplicate-register-name error; otherwise it succeeds, and
   measurement_sets holds the earlier names and the new one. *)
C4_ExplicitRegisterNames ==
  [][(/\ IsAdd
      /\ ReachesRegistration(circuits[last'.c], gates, last'.g)
      /\ gates[last'.g].register_name # NoName)
       => LET before == DOMAIN circuits[last'.c].measurement_sets
              name == gates[last'.g].register_name
          IN IF name \in before
             THEN last'.err = "KeyError" /\ CircuitKept(last'.c)
             ELSE /\ last'.err = "ok"
                  /\ DOMAIN circuits'[last'.c].measurement_sets
                       = before \cup {name}]_vars

(* C4's case: two measurement gates with distinct explicit names have been
   added to a circuit, and a third one, on further qubits, that carries the
   name of the first has just been rejected as a duplicate. *)
C4_Witness ==
  /\ last.op = "add" /\ last.err = "KeyError"
  /\ gates[last.g].register_name \in DOMAIN circuits[last.c].measurement_sets
  /\ ~Touches(circuits[last.c], gates, last.g)
  /\ {"Register1", "a"} \subseteq DOMAIN circuits[last.c].measurement_sets

(* I1: every gate in a queue, and every measurement gate, has the qubit
   count of its circuit. *)
I1 ==
  \A s \in Slots :
     /\ \A i \in DOMAIN circuits[s].queue :
           gates[circuits[s].queue[i]].nqubits = circuits[s].nqubits
     /\ circuits[s].measurement_gate # None =>
           gates[circuits[s].measurement_gate].nqubits = circuits[s].nqubits

(* C5: I1 holds in every reachable state; add on an unexecuted circuit
   back-fills an unset qubit count of the gate with the circuit's, and
   rejects a gate that declares another qubit count with the
   qubit-count-mismatch error, leaving the gate and the circuit as they were. *)
C5_QubitCount ==
  /\ []I1
  /\ [][(IsAdd /\ circuits[last'.c].final_state = "None")
          => IF Mismatch(circuits[last'.c], gates, last'.g)
             THEN /\ last'.err = "ValueError: nqubits"
                  /\ gates' = gates
                  /\ circuits' = circuits
             ELSE gates'[last'.g].nqubits = circuits[last'.c].nqubits]_vars

(* C5's case: a gate that is in the queue of a circuit of another size, which
   back-filled its qubit count, has just been rejected by a circuit. *)
C5_Witness ==
  /\ last.op = "add" /\ last.err = "ValueError: nqubits"
  /\ gates[last.g].nqubits # circuits[last.c].nqubits
  /\ \E s \in Slots :
        /\ circuits[s].nqubits = gates[last.g].nqubits
        /\ last.g \in Range(circuits[s].queue)

(* The step is a circuit addition, of the circuits in slots last'.c and
   last'.c2; its result, when there is one, is bound to R. *)
IsAddition == last'.op = "add_circuits" /\ steps' = steps + 1

(* The names of the registers of a circuit. *)
Registers(circ) == DOMAIN circ.measurement_sets

(* C6: the sum of two (different) circuits of equal size carries the
   ordinary gates of both, in order, and also their measured qubits and named
   registers. *)
C6_AdditionCarriesMeasurements ==
  [][(IsAddition /\ last'.c # last'.c2 /\ last'.err = "ok")
       => LET a == circuits[last'.c]
              b == circuits[last'.c2]
              r == circuits'["R"]
          IN /\ r.queue = a.queue \o b.queue
             /\ Measured(r, gates') = Measured(a, gates) \cup Measured(b, gates)
             /\ Registers(r) = Registers(a) \cup Registers(b)]_vars

(* Some gate of the circuit b (in its queue, or its measurement gate) acts on
   a qubit measured in the circuit a. *)
ReusesMeasured(a, b, G) ==
  \/ \E i \in DOMAIN b.queue : Touches(a, G, b.queue[i])
  \/ Measured(a, G) \cap Measured(b, G) # {}

(* C7: the sum of two (different) circuits of equal size fails with the
   duplicate-register-name error when both hold a register of the same name,
   and with the measured-qubit-reuse error when the second holds a gate on a
   qubit measured in the first; no circuit is returned. *)
C7_AdditionRechecks ==
  [][(/\ IsAddition /\ last'.c # last'.c2
      /\ circuits[last'.c].nqubits = circuits[last'.c2].nqubits)
       => LET a == circuits[last'.c]
              b == circuits[last'.c2]
              dup == Registers(a) \cap Registers(b) # {}
              reuse == ReusesMeasured(a, b, gates)
          IN /\ dup /\ ~reuse => last'.err = "KeyError"
             /\ reuse /\ ~dup => last'.err = "ValueError: measured"
             /\ dup \/ reuse
                  => /\ last'.err \in {"KeyError", "ValueError: measured"}
                     /\ circuits' = circuits]_vars

(* C8: the sum of circuits of different sizes fails with the
   qubit-count-mismatch error before any gate is replayed; for circuits of
   equal size that check does not fail and a result has their size. *)
C8_AdditionSizes ==
  [][IsAddition
       => LET a == circuits[last'.c]
              b == circuits[last'.c2]
          IN IF a.nqubits # b.nqubits
             THEN /\ last'.err = "ValueError: circuits"
                  /\ gates' = gates
                  /\ circuits' = circuits
             ELSE /\ last'.err # "ValueError: circuits"
                  /\ last'.err = "ok" => size(circuits'["R"]) = size(a)]_vars

(* C8's case: two circuits of different sizes, one holding a gate, have just
   been refused. *)
C8_Witness ==
  /\ last.op = "add_circuits" /\ last.err = "ValueError: circuits"
  /\ circuits[last.c].nqubits # circuits[last.c2].nqubits
  /\ circuits[last.c].queue # <<>> \/ circuits[last.c2].queue # <<>>

(* C9: a circuit addition, successful or failed, changes no gate and no
   circuit but the one bound to its result; a failed one changes nothing; the
   result is not executed, whatever its operands are; and an add changes no
   circuit but the one it is called on. *)
C9_AdditionFrame ==
  [][/\ IsAddition
          => /\ gates' = gates
             /\ \A s \in Slots \ {"R"} : circuits'[s] = circuits[s]
             /\ last'.err # "ok" => circuits' = circuits
             /\ last'.err = "ok"
                  => /\ ~circuits'["R"].is_executed
                     /\ circuits'["R"].final_state # "state"
     /\ IsAdd => \A s \in Slots \ {last'.c} : circuits'[s] = circuits[s]]_vars

(* C9's case: the sum of an executed circuit holding gates with another
   circuit has just been built. *)
C9_Witness ==
  /\ last.op = "add_circuits" /\ last.err = "ok"
  /\ last.c # "R" /\ last.c2 # "R"
  /\ circuits[last.c].is_executed
  /\ circuits[last.c].queue # <<>>
  /\ circuits["R"].queue = circuits[last.c].queue \o circuits[last.c2].queue

(* cls._circuit_addition on two circuits, with the gates as they are now. *)
Sum(cls, c1, c2) == _circuit_addition(cls, c1, c2, gates)

(* C10: for circuits a, b, c of one size, when (a + b) + c and a + (b + c)
   are built they hold the same gates in the same order, and the depth of
   a + b is depth(a) + depth(b). *)
C10_AdditionAssociative ==
  \A cls \in Classes :
     LET sum == [p \in Slots \X Slots |->
                   Sum(cls, circuits[p[1]], circuits[p[2]])]
     IN /\ \A p \in Slots \X Slots :
             sum[p].err = "ok"
               => depth(sum[p].circ)
                    = depth(circuits[p[1]]) + depth(circuits[p[2]])
        /\ \A sa \in Slots, sb \in Slots, sc \in Slots :
             LET ab == sum[<<sa, sb>>]
                 bc == sum[<<sb, sc>>]
                 ab_c == Sum(cls, ab.circ, circuits[sc])
                 a_bc == Sum(cls, circuits[sa], bc.circ)
             IN (ab.err = "ok" /\ bc.err = "ok"
                   /\ ab_c.err = "ok" /\ a_bc.err = "ok")
                  => ab_c.circ.queue = a_bc.circ.queue

(* C10's case: three circuits of one size, holding different gates, whose
   sums can all be built. *)
C10_Witness ==
  LET a == circuits["A"]
      b == circuits["B"]
      c == circuits["R"]
  IN /\ a.queue # <<>> /\ b.queue # <<>> /\ c.queue # <<>>
     /\ a.queue # b.queue
     /\ Sum("Circuit", Sum("Circuit", a, b).circ, c).err = "ok"
     /\ Sum("Circuit", a, Sum("Circuit", b, c).circ).err = "ok"
     /\ Sum("Circuit", a, b).err = "ok" /\ Sum("Circuit", b, c).err = "ok"

(* The step leaves the measurement state of the circuit in slot s as it was:
   the measurement gate, its targets and the registers. *)
MeasurementKept(s) ==
  /\ circuits'[s].measurement_gate = circuits[s].measurement_gate
  /\ circuits'[s].measurement_sets = circuits[s].measurement_sets
  /\ circuits[s].measurement_gate # None =>
       gates'[circuits[s].measurement_gate].target_qubits
         = gates[circuits[s].measurement_gate].target_qubits

(* C11: add is all-or-nothing on the circuit: a rejected add leaves the
   queue, the measurement gate (and its targets) and the registers as they
   were; a successful add either appends exactly that gate at the end of the
   queue and keeps the measurement state, or changes the measurement state
   and keeps the queue. *)
C11_AllOrNothing ==
  [][IsAdd =>
       /\ last'.err # "ok" => CircuitKept(last'.c)
       /\ last'.err = "ok" =>
            \/ /\ circuits'[last'.c].queue
                    = Append(circuits[last'.c].queue, last'.g)
               /\ MeasurementKept(last'.c)
            \/ /\ circuits'[last'.c].queue = circuits[last'.c].queue
               /\ ~MeasurementKept(last'.c)]_vars

(* C11's case: a measurement gate has just been rejected for its register
   name by a circuit that holds a queued gate and registered measurements. *)
C11_Witness ==
  /\ last.op = "add" /\ last.err = "KeyError"
  /\ circuits[last.c].queue # <<>>
  /\ circuits[last.c].measurement_gate # None
  /\ gates[last.g].name = "measure"

(* Gate g is not a measurement gate. *)
Ordinary(G, g) == G[g].name # "measure"

(* Gates a and b have no target qubit in common. *)
DisjointTargets(G, a, b) ==
  Range(G[a].target_qubits) \cap Range(G[b].target_qubits) = {}

(* C12, as stated: on a circuit that was empty and unexecuted and took a
   gate g1, a gate g2 of any kind with unset or matching nqubits whose
   targets are disjoint from g1's is accepted and depth is then 2; depth
   grows by one with every gate successfully added. *)
C12_Original ==
  [][IsAdd =>
       LET circ == circuits[last'.c]
           g2 == last'.g
           first(g1) ==
             \/ circ.queue = <<g1>> /\ circ.measurement_gate = None
             \/ /\ circ.queue = <<>> /\ circ.measurement_gate = g1
                /\ len(circ.measurement_sets) = 1
       IN /\ last'.err = "ok" => depth(circuits'[last'.c]) = depth(circ) + 1
          /\ (\E g1 \in DOMAIN gates :
                /\ first(g1) /\ g1 # g2
                /\ circ.final_state = "None" /\ ~circ.is_executed
                /\ ~Mismatch(circ, gates, g2)
                /\ DisjointTargets(gates, g1, g2))
               => /\ last'.err = "ok"
                  /\ depth(circuits'[last'.c]) = 2]_vars

(* C12, amended: on a circuit that was empty and unexecuted and took an
   ordinary gate g1, an ordinary gate g2 with unset or matching nqubits whose
   targets are disjoint from g1's is accepted and depth is then 2; depth
   grows by one with every ordinary gate successfully added and is left as
   it was by a measurement gate and by a rejected gate. *)
C12_DepthCountsQueue ==
  [][IsAdd =>
       LET circ == circuits[last'.c]
           g2 == last'.g
       IN /\ depth(circuits'[last'.c])
               = depth(circ)
                   + (IF last'.err = "ok" /\ Ordinary(gates, g2) THEN 1 ELSE 0)
          /\ (\E g1 \in DOMAIN gates :
                /\ circ.queue = <<g1>> /\ circ.measurement_gate = None
                /\ g1 # g2 /\ Ordinary(gates, g2)
                /\ circ.final_state = "None" /\ ~circ.is_executed
                /\ ~Mismatch(circ, gates, g2)
                /\ DisjointTargets(gates, g1, g2))
               => /\ last'.err = "ok"
                  /\ depth(circuits'[last'.c]) = 2]_vars

(* C12's case: two ordinary gates with disjoint targets have been added to
   an empty unexecuted circuit, the second one just now, and a measurement
   gate has been added to another circuit, whose depth is still 0. *)
C12_Witness ==
  /\ last.op = "add" /\ last.err = "ok"
  /\ Len(circuits[last.c].queue) = 2
  /\ circuits[last.c].queue[2] = last.g
  /\ circuits[last.c].queue[1] # last.g
  /\ DisjointTargets(gates, circuits[last.c].queue[1], last.g)
  /\ circuits[last.c].measurement_gate = None
  /\ \E s \in Slots : /\ circuits[s].measurement_gate # None
                      /\ depth(circuits[s]) = 0

(* C17: the first measurement gate successfully added to a circuit is
   installed as its measurement gate; every later one leaves that gate in
   place, extends its targets with the new qubits (earlier targets first, in
   their order) and adds one new register, under the incoming gate's name,
   holding the incoming gate's own targets; no measurement gate is ever in a
   queue. *)
C17_OneMeasurementGate ==
  /\ [](\A s \in Slots : \A i \in DOMAIN circuits[s].queue :
          Ordinary(gates, circuits[s].queue[i]))
  /\ [][(IsAdd /\ last'.err = "ok" /\ ~Ordinary(gates, last'.g)) =>
          LET circ == circuits[last'.c]
              new == circuits'[last'.c]
              g == last'.g
              mg == circ.measurement_gate
              name == gates'[g].register_name
          IN /\ new.queue = circ.queue
             /\ mg = None => new.measurement_gate = g
             /\ mg # None =>
                  /\ new.measurement_gate = mg
                  /\ gates'[mg].target_qubits
                       = gate_add(gates[mg].target_qubits,
                                  gates[g].target_qubits)
                  /\ name \notin DOMAIN circ.measurement_sets
                  /\ DOMAIN new.measurement_sets
                       = DOMAIN circ.measurement_sets \cup {name}
                  /\ \A n \in DOMAIN circ.measurement_sets :
                       new.measurement_sets[n] = circ.measurement_sets[n]
                  /\ new.measurement_sets[name].elems
                       = Range(gates[g].target_qubits)]_vars

(* The gate's register name is given and already names a register of the
   circuit. *)
DuplicateName(circ, G, g) ==
  /\ ~Ordinary(G, g)
  /\ G[g].register_name # NoName
  /\ G[g].register_name \in DOMAIN circ.measurement_sets

(* C18: add reports the first check that fails, in the order executed
   circuit, qubit-count mismatch, measured-qubit reuse, register name. *)
C18_CheckOrder ==
  [][(IsAdd /\ circuits[last'.c].final_state # "unset") =>
       LET circ == circuits[last'.c]
           g == last'.g
       IN last'.err =
            IF circ.is_executed THEN "RuntimeError"
            ELSE IF Mismatch(circ, gates, g) THEN "ValueError: nqubits"
            ELSE IF Touches(circ, gates, g) THEN "ValueError: measured"
            ELSE IF DuplicateName(circ, gates, g) THEN "KeyError"
            ELSE "ok"]_vars

(* The registers of the circuit are pairwise disjoint and together hold
   exactly the targets of its measurement gate. *)
RegistersCover(circ, G) ==
  LET regs == circ.measurement_sets
      targets == IF circ.measurement_gate = None THEN {}
                 ELSE Range(G[circ.measurement_gate].target_qubits)
  IN /\ UNION {regs[n].elems : n \in DOMAIN regs} = targets
     /\ \A n \in DOMAIN regs, m \in DOMAIN regs :
          n # m => regs[n].elems \cap regs[m].elems = {}

(* C19: in every state the registers of a circuit are pairwise disjoint and
   cover exactly the targets of its measurement gate, and every measurement
   gate successfully added adds one to the number of registers. *)
C19_RegistersCoverMeasured ==
  /\ [](\A s \in Slots : RegistersCover(circuits[s], gates))
  /\ [][IsAdd =>
          len(circuits'[last'.c].measurement_sets)
            = len(circuits[last'.c].measurement_sets)
                + (IF last'.err = "ok" /\ ~Ordinary(gates, last'.g)
                   THEN 1 ELSE 0)]_vars

(* C20: a gate rejected for a measured qubit, for a frozen circuit or for
   its register name keeps its qubit count and its register name unset if
   they were unset before the call. *)
C20_RejectedGateUntouched ==
  [][(IsAdd /\ last'.err \in {"ValueError: measured", "RuntimeError",
                              "KeyError"}) =>
       /\ gates[last'.g].nqubits = None => gates'[last'.g].nqubits = None
       /\ gates[last'.g].register_name = NoName
            => gates'[last'.g].register_name = NoName]_vars

(* The step is a call of to_qasm. *)
IsToQasm == last'.op = "to_qasm" /\ steps' = steps + 1

(* The opcodes that to_qasm lowers as measurements. *)
MeasureOpcodes == {"MX", "MY", "measure"}

(* The circuit has no measurement and its queue holds only ordinary gates on
   one or two qubits. *)
Plain(circ, G) ==
  /\ circ.measurement_gate = None
  /\ \A i \in DOMAIN circ.queue :
       /\ gate2qasm(G[circ.queue[i]])[1] \notin MeasureOpcodes
       /\ Len(gate2qasm(G[circ.queue[i]])[2]) \in {1, 2}

(* The operands of an instruction, as the listing shows them. *)
Operands(ids) ==
  IF Len(ids) = 1 THEN "q[" \o ToString(ids[1]) \o "]"
  ELSE "q[" \o ToString(ids[1]) \o "], q[" \o ToString(ids[2]) \o "]"

(* The listing of a plain circuit: four lines of preamble, then one line for
   each gate of the queue, each made of the gate's opcode, its operands and
   the given end of line; no classical register. *)
PlainListing(circ, G, result, end) ==
  /\ result.err = "ok"
  /\ Len(result.code) = 4 + depth(circ)
  /\ result.code[1] = "# Generated by QIBO"
  /\ result.code[2] = "OPENQASM 2.0;"
  /\ result.code[3] = "include \"qelib1.inc\";"
  /\ result.code[4] = "qreg q[" \o ToString(circ.nqubits) \o "];"
  /\ \A i \in DOMAIN circ.queue :
       result.code[4 + i]
         = gate2qasm(G[circ.queue[i]])[1] \o " "
             \o Operands(gate2qasm(G[circ.queue[i]])[2]) \o end
  /\ "creg c[1];" \notin Range(result.code)
  /\ result.text = join("\n", result.code)

(* C13, as stated: for a circuit with no measurement and only ordinary one-
   and two-qubit gates, to_qasm returns 4 + depth lines: the preamble, then
   for each gate `opcode q[a]` or `opcode q[a], q[b]`. *)
C13_Original ==
  [][(IsToQasm /\ Plain(circuits[last'.c], gates))
       => PlainListing(circuits[last'.c], gates, qasm', "")]_vars

(* C13, amended: for a circuit with no measurement and only ordinary one-
   and two-qubit gates, to_qasm returns 4 + depth lines: the preamble, then
   for each gate `opcode q[a];` or `opcode q[a], q[b];`, each gate line
   closed by a semicolon. *)
C13_PlainListing ==
  [][(IsToQasm /\ Plain(circuits[last'.c], gates))
       => PlainListing(circuits[last'.c], gates, qasm', ";")]_vars

(* C13's case: the 4-qubit circuit [H(0), CNOT(0, 1)] has just been written;
   the text is the one the program returns. *)
C13_Witness ==
  /\ last.op = "to_qasm"
  /\ circuits[last.c].nqubits = 4
  /\ circuits[last.c].measurement_gate = None
  /\ Len(circuits[last.c].queue) = 2
  /\ gates[circuits[last.c].queue[1]].name = "h"
  /\ gates[circuits[last.c].queue[2]].name = "cx"
  /\ qasm.text = "# Generated by QIBO\nOPENQASM 2.0;\ninclude \"qelib1.inc\";\nqreg q[4];\nh q[0];\ncx q[0], q[1];"

(* The circuit contains a measurement: a measurement gate added through add,
   or a queued gate lowered with a measurement opcode. *)
HasMeasurement(circ, G) ==
  \/ circ.measurement_gate # None
  \/ \E i \in DOMAIN circ.queue :
       gate2qasm(G[circ.queue[i]])[1] \in MeasureOpcodes

(* C14: for a circuit that contains a measurement, to_qasm returns a listing
   with the line `creg c[1];` exactly once, right after the qreg line, and a
   measurement instruction line on the first operand of every gate lowered
   as a measurement. *)
C14_ClassicalRegister ==
  [][(IsToQasm /\ HasMeasurement(circuits[last'.c], gates)) =>
       /\ qasm'.err = "ok"
       /\ Len(qasm'.code) >= 5
       /\ qasm'.code[5] = "creg c[1];"
       /\ Cardinality({i \in DOMAIN qasm'.code : qasm'.code[i] = "creg c[1];"})
            = 1
       /\ \A i \in DOMAIN circuits[last'.c].queue :
            LET q == gate2qasm(gates[circuits[last'.c].queue[i]])
            IN q[1] \in MeasureOpcodes =>
                 ("measure q[" \o ToString(q[2][1]) \o "] -> c[0];")
                   \in Range(qasm'.code)]_vars

(* C15: to_qasm raises no error on any circuit, leaves the circuits and the
   gates as they were, and returns the same text when called again. *)
C15_PureProjection ==
  [][IsToQasm =>
       /\ qasm'.err = "ok"
       /\ circuits' = circuits /\ gates' = gates
       /\ to_qasm(circuits'[last'.c], gates').text = qasm'.text]_vars

(* C16: for an upstream gradient of length n >= 1 the adapter returns one
   downstream gradient, of length n, whose element 0 is 0 and whose element
   i is grad[i] for 1 <= i < n (Python indexes from 0, sequences from 1). *)
C16_InitialStateGrad ==
  (last.op = "grad" /\ Len(grad) >= 1) =>
    /\ Len(returned) = 1
    /\ Len(returned[1]) = Len(grad)
    /\ returned[1][1] = 0
    /\ \A i \in 2..Len(grad) : returned[1][i] = grad[i]

(* C16's case: the adapter has been applied to a gradient of three different
   entries, none of them 0 at index 0. *)
C16_Witness ==
  /\ last.op = "grad"
  /\ grad = <<2, -1, 1>>
  /\ returned = << <<0, -1, 1>> >>
====
